---- MODULE Spec2Model ----
(***************************************************************************)
(* A model of SerialGrabber.py: the scan loop of parse_inventory_files,    *)
(* the per-block resolution and line scanner of process_content, the date  *)
(* resolver find_best_date, and the sort / drop_duplicates / sort stage.   *)
(*                                                                         *)
(* Text is a sequence of tokens.  The keywords the regular expressions     *)
(* look for ("NAME:", "PID:", "#", "show", ...) are single tokens, " " and *)
(* "\n" are the whitespace tokens, every other token is a run of ordinary  *)
(* non-blank characters.  A Python str is such a sequence, None is the     *)
(* empty tuple and a present optional value v is the one-tuple <<v>>, so   *)
(* that the empty string and None stay distinct.                           *)
(*                                                                         *)
(* Left out: get_college_from_path and the College column, the branch for  *)
(* a missing root folder (lines 151-153), and the column cleanup and       *)
(* to_excel call (lines 236-241); none of them feeds a value modelled here.*)
(***************************************************************************)
EXTENDS Integers, Sequences, FiniteSets, TLC

VARIABLES sources, srcIdx, memIdx, pc, ret, lines, lineIdx, filename,
          current_hostname, hostname_priority, current_clock_dt,
          raw_time_string, current_name, current_descr, extracted_data,
          files_processed, archives_processed, stdout, df, initial_count,
          duplicates_removed, final_count

vars == <<sources, srcIdx, memIdx, pc, ret, lines, lineIdx, filename,
          current_hostname, hostname_priority, current_clock_dt,
          raw_time_string, current_name, current_descr, extracted_data,
          files_processed, archives_processed, stdout, df, initial_count,
          duplicates_removed, final_count>>

None == <<>>

Some(v) == <<v>>

\* Python truthiness of an optional str: None and "" are both false.
Truthy(opt) == opt # None /\ opt[1] # <<>>

Min(S) == CHOOSE x \in S : \A y \in S : x <= y

Max(S) == CHOOSE x \in S : \A y \in S : x >= y

(***************************************************************************)
(* Text primitives.                                                        *)
(***************************************************************************)

\* The tokens \s matches.
WS == {" ", "\n"}

At(s, i, tok) == i >= 1 /\ i <= Len(s) /\ s[i] = tok

\* The position a greedy \s* that starts at i stops at.
SkipWS(s, i) == Min({j \in i..(Len(s) + 1) : j = Len(s) + 1 \/ s[j] \notin WS})

\* The first whitespace token at or after i (the end of a [^\s]+ run).
SkipNonWS(s, i) == Min({j \in i..(Len(s) + 1) : j = Len(s) + 1 \/ s[j] \in WS})

\* The end of the line position i is on (where "." stops and "$" matches).
EndOfLine(s, i) == Min({j \in i..(Len(s) + 1) : j = Len(s) + 1 \/ s[j] = "\n"})

\* str.strip()
Strip(s) ==
    LET keep == {i \in 1..Len(s) : s[i] \notin WS}
    IN  IF keep = {} THEN <<>> ELSE SubSeq(s, Min(keep), Max(keep))

\* str.splitlines()
RECURSIVE SplitLines(_)
SplitLines(s) ==
    IF s = <<>> THEN <<>>
    ELSE LET e == EndOfLine(s, 1)
         IN  <<SubSeq(s, 1, e - 1)>> \o SplitLines(SubSeq(s, e + 1, Len(s)))

\* The positions "^" matches under re.MULTILINE.
LineStarts(s) == {1} \cup {i + 1 : i \in {k \in 1..Len(s) : s[k] = "\n"}}

\* The literal "show <word>" at position k.
ShowAt(s, k, word) == At(s, k, "show") /\ At(s, k + 1, " ") /\ At(s, k + 2, word)

(***************************************************************************)
(* The regular expressions (lines 16-30).  Each operator is the result of  *)
(* pattern.search on its argument: None, or the captured groups.           *)
(***************************************************************************)

\* The "#" positions at which  #\s*show inventory  matches, the text from
\* line start p up to them holding no line break (the lazy (.*?)).
PromptEnds(s, p) ==
    {j \in p..Len(s) : /\ s[j] = "#"
                       /\ EndOfLine(s, p) > j
                       /\ ShowAt(s, SkipWS(s, j + 1), "inventory")}

\* PROMPT_HOSTNAME_PATTERN.search(content): group(1) of the leftmost match.
PROMPT_HOSTNAME_PATTERN(s) ==
    LET P == {p \in LineStarts(s) : PromptEnds(s, p) # {}}
    IN  IF P = {} THEN None
        ELSE LET p == Min(P) IN Some(SubSeq(s, p, Min(PromptEnds(s, p)) - 1))

\* Whether  hostname\s+([^\s]+)  matches at line start p.
ConfigAt(s, p) ==
    /\ At(s, p, "hostname")
    /\ p + 1 <= Len(s) /\ s[p + 1] \in WS
    /\ SkipWS(s, p + 1) <= Len(s)

\* CONFIG_HOSTNAME_PATTERN.search(content): group(1) of the leftmost match.
CONFIG_HOSTNAME_PATTERN(s) ==
    LET P == {p \in LineStarts(s) : ConfigAt(s, p)}
    IN  IF P = {} THEN None
        ELSE LET q == SkipWS(s, Min(P) + 1)
             IN  Some(SubSeq(s, q, SkipNonWS(s, q) - 1))

\* The "#" positions at which  #\s*show clock\s*\n  matches.
ClockAt(s, j) ==
    /\ At(s, j, "#")
    /\ LET k == SkipWS(s, j + 1)
       IN  /\ ShowAt(s, k, "clock")
           /\ \E n \in (k + 3)..(SkipWS(s, k + 3) - 1) : s[n] = "\n"

\* CLOCK_PATTERN.search(content): group(1) of the leftmost match, the rest
\* of the line on which the whitespace after "show clock" ends.
CLOCK_PATTERN(s) ==
    LET J == {j \in 1..Len(s) : ClockAt(s, j)}
    IN  IF J = {} THEN None
        ELSE LET e == SkipWS(s, SkipWS(s, Min(J) + 1) + 3)
             IN  Some(SubSeq(s, e, EndOfLine(s, e) - 1))

\* The date/time texts of the model.  A token of HMSTokens holds an
\* HH:MM:SS substring; dateutil's parser.parse turns a token of DateValue's
\* domain into a datetime, here [year, ord] with ord the order in time.
HMSTokens == {"10:00:00 Jan 1 2023", "11:00:00 Jan 2 2023",
              "12:00:00 Jan 1 1980", "99:99:99"}

DateValue ==
    [t \in {"10:00:00 Jan 1 2023", "11:00:00 Jan 2 2023",
            "12:00:00 Jan 1 1980", "Jan 3 2023"} |->
        CASE t = "10:00:00 Jan 1 2023" -> [year |-> 2023, ord |-> 1]
          [] t = "11:00:00 Jan 2 2023" -> [year |-> 2023, ord |-> 2]
          [] t = "12:00:00 Jan 1 1980" -> [year |-> 1980, ord |-> 0]
          [] t = "Jan 3 2023"          -> [year |-> 2023, ord |-> 3]]

\* parser.parse(text, fuzzy=True): the datetime of the one date text in
\* it; None stands for the exception raised when the text holds no date or
\* one that is out of range.  (The texts of the model hold at most one.)
FuzzyParse(s) ==
    LET D == {i \in 1..Len(s) : s[i] \in HMSTokens \cup DOMAIN DateValue}
    IN  IF Cardinality(D) = 1 /\ s[Min(D)] \in DOMAIN DateValue
        THEN Some(DateValue[s[Min(D)]]) ELSE None

\* FALLBACK_TIME_PATTERN.findall(content): every line with an HH:MM:SS.
RECURSIVE FALLBACK_TIME_PATTERN(_)
FALLBACK_TIME_PATTERN(s) ==
    IF s = <<>> THEN <<>>
    ELSE LET e == EndOfLine(s, 1)
             line == SubSeq(s, 1, e - 1)
             rest == FALLBACK_TIME_PATTERN(SubSeq(s, e + 1, Len(s)))
         IN  IF \E i \in 1..Len(line) : line[i] \in HMSTokens
             THEN <<line>> \o rest ELSE rest

\* The places (j, e, f) of the three closing quotes of a match of
\* NAME_DESCR_PATTERN that starts at p: j ends the name, e opens and f
\* closes the description.
NameEnds(s, p) ==
    LET q == SkipWS(s, p + 1)
    IN  IF ~(At(s, p, "NAME:") /\ At(s, q, "\"")) THEN {}
        ELSE {j \in (q + 1)..Len(s) :
                /\ s[j] = "\""
                /\ At(s, j + 1, ",")
                /\ LET d == SkipWS(s, j + 2)
                   IN  /\ At(s, d, "DESCR:")
                       /\ At(s, SkipWS(s, d + 1), "\"")
                       /\ \E f \in (SkipWS(s, d + 1) + 1)..Len(s) : s[f] = "\""}

\* NAME_DESCR_PATTERN.search(line): groups (1) and (2), both lazy.
NAME_DESCR_PATTERN(s) ==
    LET P == {p \in 1..Len(s) : NameEnds(s, p) # {}}
    IN  IF P = {} THEN None
        ELSE LET p == Min(P)
                 q == SkipWS(s, p + 1)
                 j == Min(NameEnds(s, p))
                 e == SkipWS(s, SkipWS(s, j + 2) + 1)
                 f == Min({x \in (e + 1)..Len(s) : s[x] = "\""})
             IN  Some([name |-> SubSeq(s, q + 1, j - 1),
                       descr |-> SubSeq(s, e + 1, f - 1)])

\* The commas after the VID: of a match of PID_SN_PATTERN that starts at p
\* which  ,\s*SN:  can match at (the greedy .* takes the last one).
SnCommas(s, p) ==
    LET C == {c \in (p + 1)..Len(s) : s[c] = ","}
    IN  IF ~At(s, p, "PID:") \/ C = {} THEN {}
        ELSE LET v == SkipWS(s, Min(C) + 1)
             IN  IF ~At(s, v, "VID:") THEN {}
                 ELSE {k \in (v + 1)..Len(s) :
                         s[k] = "," /\ At(s, SkipWS(s, k + 1), "SN:")}

\* PID_SN_PATTERN.search(line): group (1) is all up to the first comma,
\* group (2) all after SN: and its whitespace; either may be empty.
PID_SN_PATTERN(s) ==
    LET P == {p \in 1..Len(s) : SnCommas(s, p) # {}}
    IN  IF P = {} THEN None
        ELSE LET p == Min(P)
                 c == Min({x \in (p + 1)..Len(s) : s[x] = ","})
                 k == Max(SnCommas(s, p))
             IN  Some([pid |-> SubSeq(s, SkipWS(s, p + 1), c - 1),
                       sn  |-> SubSeq(s, SkipWS(s, SkipWS(s, k + 1) + 1), Len(s))])

(***************************************************************************)
(* find_best_date and the hostname logic of process_content.               *)
(***************************************************************************)

\* Lines 72-80: the last candidate line, scanning backwards, that parses
\* to a year after 1990; None when there is none.
RECURSIVE FallbackScan(_)
FallbackScan(potential_lines) ==
    IF potential_lines = <<>> THEN [dt |-> None, raw |-> None]
    ELSE LET line == potential_lines[Len(potential_lines)]
             dt == FuzzyParse(line)
         IN  IF dt # None /\ dt[1].year > 1990
             THEN [dt |-> dt, raw |-> Some(Strip(line))]
             ELSE FallbackScan(SubSeq(potential_lines, 1, Len(potential_lines) - 1))

\* find_best_date with its two sources in the other order: the clock is
\* read only when no timestamp line is found.
find_best_date_FallbackFirst(content) ==
    LET clock_match == CLOCK_PATTERN(content)
        raw_str == Strip(clock_match[1])
        last == FallbackScan(FALLBACK_TIME_PATTERN(content))
    IN  IF last.dt # None THEN last
        ELSE IF clock_match # None /\ FuzzyParse(raw_str) # None
             THEN [dt |-> FuzzyParse(raw_str), raw |-> Some(raw_str)]
             ELSE last

\* find_best_date(content): (datetime, raw string), each possibly None.
find_best_date(content) ==
    LET clock_match == CLOCK_PATTERN(content)
        raw_str == Strip(clock_match[1])
    IN  IF clock_match # None /\ FuzzyParse(raw_str) # None
        THEN [dt |-> FuzzyParse(raw_str), raw |-> Some(raw_str)]
        ELSE FallbackScan(FALLBACK_TIME_PATTERN(content))

\* ResolveHostname with the configuration line tried before the prompt.
ResolveHostname_ConfigFirst(content, fname) ==
    LET prompt_match == PROMPT_HOSTNAME_PATTERN(content)
        config_match == CONFIG_HOSTNAME_PATTERN(content)
    IN  IF config_match # None
        THEN [hostname |-> Strip(config_match[1]), priority |-> 1]
        ELSE IF prompt_match # None
             THEN [hostname |-> Strip(prompt_match[1]), priority |-> 2]
             ELSE [hostname |-> fname, priority |-> 0]

\* Lines 87-98: the hostname of a block and the priority of its origin.
ResolveHostname(content, fname) ==
    LET prompt_match == PROMPT_HOSTNAME_PATTERN(content)
        config_match == CONFIG_HOSTNAME_PATTERN(content)
    IN  IF prompt_match # None
        THEN [hostname |-> Strip(prompt_match[1]), priority |-> 2]
        ELSE IF config_match # None
             THEN [hostname |-> Strip(config_match[1]), priority |-> 1]
             ELSE [hostname |-> fname, priority |-> 0]

(***************************************************************************)
(* The line scanner of process_content (lines 108-137).  sc is the         *)
(* scanner's state [current_name, current_descr, extracted_data], stamp    *)
(* the block-level values every record of the block carries.               *)
(***************************************************************************)

\* Lines 123-134: the dictionary appended for a PID line.
NewRecord(sc, ps_match, stamp) ==
    [Hostname           |-> stamp.Hostname,
     CaptureTime        |-> stamp.CaptureTime,
     OriginalTimeString |-> stamp.OriginalTimeString,
     SN                 |-> Strip(ps_match.sn),
     PID                |-> Strip(ps_match.pid),
     NAME               |-> sc.current_name[1],
     DESCR              |-> sc.current_descr[1],
     SourceFile         |-> stamp.SourceFile,
     HostnamePriority   |-> stamp.HostnamePriority]

\* Line 117: a name is pending and the line starts with "PID:".
PidLineDue(sc, line) == Truthy(sc.current_name) /\ At(line, 1, "PID:")

\* ScanLine that keeps a pending pair when another NAME/DESCR line comes.
ScanLine_KeepFirst(sc, rawline, stamp) ==
    LET line == Strip(rawline)
        nd_match == NAME_DESCR_PATTERN(line)
        ps_match == PID_SN_PATTERN(line)
    IN  IF nd_match # None
        THEN IF Truthy(sc.current_name) THEN sc
             ELSE [sc EXCEPT !.current_name = Some(nd_match[1].name),
                             !.current_descr = Some(nd_match[1].descr)]
        ELSE IF PidLineDue(sc, line)
             THEN [current_name   |-> None,
                   current_descr  |-> None,
                   extracted_data |->
                       IF ps_match # None
                       THEN Append(sc.extracted_data,
                                   NewRecord(sc, ps_match[1], stamp))
                       ELSE sc.extracted_data]
             ELSE sc

\* One iteration of the loop at line 108.
ScanLine(sc, rawline, stamp) ==
    LET line == Strip(rawline)
        nd_match == NAME_DESCR_PATTERN(line)
        ps_match == PID_SN_PATTERN(line)
    IN  IF nd_match # None
        THEN [sc EXCEPT !.current_name = Some(nd_match[1].name),
                        !.current_descr = Some(nd_match[1].descr)]
        ELSE IF PidLineDue(sc, line)
             THEN [current_name   |-> None,
                   current_descr  |-> None,
                   extracted_data |->
                       IF ps_match # None
                       THEN Append(sc.extracted_data,
                                   NewRecord(sc, ps_match[1], stamp))
                       ELSE sc.extracted_data]
             ELSE sc

(***************************************************************************)
(* The data stage of parse_inventory_files (lines 210-234).                *)
(***************************************************************************)

\* len() of a token.
TokenLen(t) ==
    CASE t \in {"10:00:00 Jan 1 2023", "11:00:00 Jan 2 2023",
                "12:00:00 Jan 1 1980"} -> 19
      [] t = "Jan 3 2023" -> 10
      [] t = "inventory" -> 9
      [] t \in {"hostname", "99:99:99"} -> 8
      [] t = "DESCR:" -> 6
      [] t \in {"NAME:", "clock"} -> 5
      [] t \in {"PID:", "VID:", "show"} -> 4
      [] t = "SN:" -> 3
      [] t \in {"R1", "R2", "R3", "f1", "f2"} -> 2
      [] OTHER -> 1

\* len() of a str.
RECURSIVE StrLen(_)
StrLen(s) == IF s = <<>> THEN 0 ELSE TokenLen(Head(s)) + StrLen(Tail(s))

\* The tokens in the order Python compares their texts (by code point).
TokenOrder ==
    <<"\n", " ", "\"", "#", ",", "10:00:00 Jan 1 2023", "11:00:00 Jan 2 2023",
      "12:00:00 Jan 1 1980", "99:99:99", "DESCR:", "Jan 3 2023", "NAME:",
      "PID:", "R1", "R2", "R3", "SN:", "VID:", "a", "b", "clock", "f1", "f2",
      "hostname", "inventory", "show">>

TokenRank(t) == CHOOSE i \in 1..Len(TokenOrder) : TokenOrder[i] = t

\* a < b for two str.
StrLess(a, b) ==
    \E k \in 1..(Len(a) + 1) :
        /\ k <= Len(b)
        /\ \A i \in 1..(k - 1) : a[i] = b[i]
        /\ k = Len(a) + 1 \/ TokenRank(a[k]) < TokenRank(b[k])

\* a is a later datetime than b.
DtLater(a, b) == a.year > b.year \/ (a.year = b.year /\ a.ord > b.ord)

\* Line 215: the Descr_Len column.
Descr_Len(r) == StrLen(r.DESCR)

\* TechBefore with the first two sort keys exchanged.
TechBefore_LenFirst(a, b) ==
    \/ Descr_Len(a) > Descr_Len(b)
    \/ /\ Descr_Len(a) = Descr_Len(b)
       /\ \/ a.HostnamePriority > b.HostnamePriority
          \/ /\ a.HostnamePriority = b.HostnamePriority
             /\ a.CaptureTime # None
             /\ \/ b.CaptureTime = None
                \/ DtLater(a.CaptureTime[1], b.CaptureTime[1])

\* Lines 218-223: a sorts strictly before b in the technical sort, which is
\* descending on every key and puts a missing Capture Time last.
TechBefore(a, b) ==
    \/ a.HostnamePriority > b.HostnamePriority
    \/ /\ a.HostnamePriority = b.HostnamePriority
       /\ \/ Descr_Len(a) > Descr_Len(b)
          \/ /\ Descr_Len(a) = Descr_Len(b)
             /\ a.CaptureTime # None
             /\ \/ b.CaptureTime = None
                \/ DtLater(a.CaptureTime[1], b.CaptureTime[1])

\* TechnicalSort by a sort that is not stable: equal keys change places.
TechnicalSort_Unstable(s) ==
    LET n == Len(s)
        pos == [i \in 1..n |-> 1 + Cardinality({j \in 1..n :
                        \/ TechBefore(s[j], s[i])
                        \/ ~TechBefore(s[i], s[j]) /\ j > i})]
    IN  [k \in 1..n |-> s[CHOOSE i \in 1..n : pos[i] = k]]

\* Lines 218-223: sort_values on several keys is a stable sort.
TechnicalSort(s) ==
    LET n == Len(s)
        pos == [i \in 1..n |-> 1 + Cardinality({j \in 1..n :
                        \/ TechBefore(s[j], s[i])
                        \/ ~TechBefore(s[i], s[j]) /\ j < i})]
    IN  [k \in 1..n |-> s[CHOOSE i \in 1..n : pos[i] = k]]

\* DropDuplicates without its subset: only rows equal in every column go.
DropDuplicates_WholeRow(s) ==
    LET keep == {i \in 1..Len(s) : \A j \in 1..(i - 1) : s[j] # s[i]}
        nth(k) == CHOOSE i \in keep : Cardinality({j \in keep : j < i}) = k - 1
    IN  [k \in 1..Cardinality(keep) |-> s[nth(k)]]

\* Line 228: drop_duplicates(subset=['SN'], keep='first').
DropDuplicates(s) ==
    LET keep == {i \in 1..Len(s) : \A j \in 1..(i - 1) : s[j].SN # s[i].SN}
        nth(k) == CHOOSE i \in keep : Cardinality({j \in keep : j < i}) = k - 1
    IN  [k \in 1..Cardinality(keep) |-> s[nth(k)]]

\* Line 234: a sorts strictly before b in the visual sort.
VisualBefore(a, b) ==
    \/ StrLess(a.Hostname, b.Hostname)
    \/ a.Hostname = b.Hostname /\ StrLess(a.NAME, b.NAME)

\* Line 234: sort_values(by=['Hostname', 'NAME']), stable as well.
VisualSort(s) ==
    LET n == Len(s)
        pos == [i \in 1..n |-> 1 + Cardinality({j \in 1..n :
                        \/ VisualBefore(s[j], s[i])
                        \/ ~VisualBefore(s[i], s[j]) /\ j < i})]
    IN  [k \in 1..n |-> s[CHOOSE i \in 1..n : pos[i] = k]]

\* Lines 212-234: the frame and the counts the report is written from.
Deduplicate(records) ==
    LET kept == DropDuplicates(TechnicalSort(records))
    IN  [df                 |-> VisualSort(kept),
         initial_count      |-> Len(records),
         final_count        |-> Len(kept),
         duplicates_removed |-> Len(records) - Len(kept)]

(***************************************************************************)
(* Inputs.  A directory entry is [kind, name, readable, content, members]: *)
(* kind "file", "zip" or "tar", "report" for a name holding                *)
(* Inventory_Report and "excluded" for the extensions of line 199;         *)
(* readable says whether opening it succeeds.  An archive member is        *)
(* [name, isdir, ok, content], ok saying whether reading it succeeds.      *)
(***************************************************************************)

MaxSources == 3

MaxLines == 3

MaxRecords == 3

\* Sequences over S of length 1..n.
SeqsUpTo(S, n) == UNION {[1..k -> S] : k \in 1..n}

\* The text of a file whose lines are ls, each ended by a line break.
RECURSIVE Text(_)
Text(ls) == IF ls = <<>> THEN <<>> ELSE Head(ls) \o <<"\n">> \o Text(Tail(ls))

NDLine(name, descr) ==
    <<"NAME:", " ", "\"">> \o name \o <<"\"", ",", " ", "DESCR:", " ", "\"">>
        \o descr \o <<"\"">>

PIDLine(pid, sn) ==
    <<"PID:", " ">> \o pid \o <<" ", ",", " ", "VID:", " ", "b", ",", " ", "SN:", " ">>
        \o sn

\* Lines of "show inventory" output, well formed and not.
InvLines ==
    { NDLine(<<"a">>, <<"a">>),
      <<" ">> \o NDLine(<<"b">>, <<"a", " ", "b">>),
      NDLine(<<>>, <<"b">>),
      PIDLine(<<"a">>, <<"a">>),
      <<" ">> \o PIDLine(<<"b">>, <<"b">>) \o <<" ">>,
      PIDLine(<<>>, <<>>),
      <<"PID:", " ", "a">>,
      <<"a", " ">> \o PIDLine(<<"a">>, <<"a">>),
      <<"PID:", " ">> \o NDLine(<<"b">>, <<"b">>),
      <<"a">> }

\* Prompt, configuration, clock and timestamp lines, and one component.
HdrLines ==
    { <<"R1", "#", "show", " ", "inventory">>,
      <<" ", "R2", " ", "#", " ", "show", " ", "inventory">>,
      <<"hostname", " ", "R3">>,
      <<"R1", "#", "show", " ", "clock">>,
      <<"10:00:00 Jan 1 2023">>,
      <<"a", " ", "11:00:00 Jan 2 2023", " ">>,
      <<"12:00:00 Jan 1 1980">>,
      <<"99:99:99">>,
      <<"Jan 3 2023">>,
      <<>>,
      NDLine(<<"a">>, <<"a">>),
      PIDLine(<<"a">>, <<"a">>) }

File(name, readable, content) ==
    [kind |-> "file", name |-> name, readable |-> readable,
     content |-> content, members |-> <<>>]

Archive(kind, name, readable, members) ==
    [kind |-> kind, name |-> name, readable |-> readable,
     content |-> <<>>, members |-> members]

Skipped(kind, name) ==
    [kind |-> kind, name |-> name, readable |-> TRUE,
     content |-> <<>>, members |-> <<>>]

Member(name, isdir, ok, content) ==
    [name |-> name, isdir |-> isdir, ok |-> ok, content |-> content]

\* Three captures: the same component seen at a prompt, in a configuration
\* and in a bare listing.
CaptureA ==
    Text(<<<<"R1", "#", "show", " ", "inventory">>,
           NDLine(<<"a">>, <<"a">>), PIDLine(<<"a">>, <<"a">>)>>)

CaptureB ==
    Text(<<<<"hostname", " ", "R3">>, <<"10:00:00 Jan 1 2023">>,
           NDLine(<<"a">>, <<"a", " ", "b">>), PIDLine(<<"a">>, <<"a">>),
           NDLine(<<"b">>, <<"b">>), PIDLine(<<"b">>, <<"b">>)>>)

CaptureC == Text(<<NDLine(<<"b">>, <<"b">>), PIDLine(<<"b">>, <<"b">>)>>)

\* The directory entries a walk meets.
SourcePool ==
    { File(<<"f1">>, TRUE, CaptureA),
      File(<<"f2">>, TRUE, CaptureC),
      File(<<"f1">>, FALSE, <<>>),
      File(<<"f2">>, TRUE, Text(<<<<"a">>>>)),
      Archive("zip", <<"f1">>, FALSE, <<>>),
      Archive("zip", <<"f2">>, TRUE,
              <<Member(<<"a">>, FALSE, TRUE, CaptureB),
                Member(<<"b">>, FALSE, FALSE, <<>>),
                Member(<<"f1">>, FALSE, TRUE, CaptureA)>>),
      Archive("tar", <<"f1">>, TRUE,
              <<Member(<<"a">>, TRUE, TRUE, <<>>),
                Member(<<"b">>, FALSE, TRUE, CaptureC)>>),
      Archive("tar", <<"f2">>, TRUE,
              <<Member(<<"a">>, FALSE, FALSE, <<>>)>>),
      Archive("tar", <<"f2">>, FALSE, <<>>),
      Skipped("report", <<"f1">>),
      Skipped("excluded", <<"f2">>) }

\* A record of the data stage's input, with the columns it does not read
\* fixed.
Rec(h, p, d, t, sn) ==
    [Hostname           |-> h,
     CaptureTime        |-> IF t = None THEN None ELSE Some(DateValue[t[1]]),
     OriginalTimeString |-> IF t = None THEN None ELSE Some(t),
     SN                 |-> sn,
     PID                |-> <<"a">>,
     NAME               |-> <<"a">>,
     DESCR              |-> d,
     SourceFile         |-> <<<<"f1">>>>,
     HostnamePriority   |-> p]

\* Records of one serial in every combination of the three sort keys, and
\* two records of another serial.
RecordPool ==
    { Rec(<<"R1">>, p, d, t, <<"a">>) :
        p \in 0..2,
        d \in {<<"a">>, <<"a", " ", "b">>},
        t \in {None, <<"10:00:00 Jan 1 2023">>, <<"11:00:00 Jan 2 2023">>} }
    \cup { Rec(<<"R1">>, p, <<"a">>, None, <<"b">>) : p \in {0, 2} }

\* Records that differ in host, priority, capture time and serial.
OrderPool ==
    { Rec(h, p, <<"a">>, t, sn) :
        h \in {<<"R1">>, <<"R2">>},
        p \in {0, 1},
        t \in {None, <<"10:00:00 Jan 1 2023">>},
        sn \in {<<"a">>, <<"b">>} }

(***************************************************************************)
(* The state machine.  pc is the place in parse_inventory_files: "walk"    *)
(* at the head of the loop of line 157, "members" at the head of a member  *)
(* loop (lines 171, 187), "lines" inside process_content at the head of    *)
(* the loop of line 108, "done" after the data stage.                      *)
(***************************************************************************)

\* Lines 144-146 and the locals, before anything is read.
Start(srcs, data) ==
    /\ sources = srcs
    /\ extracted_data = data
    /\ srcIdx = 1
    /\ memIdx = 0
    /\ pc = "walk"
    /\ ret = "walk"
    /\ lines = <<>>
    /\ lineIdx = 0
    /\ filename = <<>>
    /\ current_hostname = <<>>
    /\ hostname_priority = 0
    /\ current_clock_dt = None
    /\ raw_time_string = None
    /\ current_name = None
    /\ current_descr = None
    /\ files_processed = 0
    /\ archives_processed = 0
    /\ stdout = <<>>
    /\ df = <<>>
    /\ initial_count = 0
    /\ duplicates_removed = 0
    /\ final_count = 0

\* A walk over up to MaxSources directory entries.
Init == \E srcs \in SeqsUpTo(SourcePool, MaxSources) : Start(srcs, <<>>)

\* One regular file of up to MaxLines inventory lines.
InitBlock ==
    \E ls \in SeqsUpTo(InvLines, MaxLines) :
        Start(<<File(<<"f1">>, TRUE, Text(ls))>>, <<>>)

\* One regular file of up to MaxLines header lines.
InitResolve ==
    \E ls \in SeqsUpTo(HdrLines, MaxLines) :
        Start(<<File(<<"f1">>, TRUE, Text(ls))>>, <<>>)

\* Line 209: the walk is over and has accumulated up to MaxRecords records.
InitDedup == \E data \in SeqsUpTo(RecordPool, MaxRecords) : Start(<<>>, data)

\* The same, for the order of the result.
InitRerun == \E data \in SeqsUpTo(OrderPool, MaxRecords) : Start(<<>>, data)

\* Lines 85-106: process_content up to its loop, on one block of text.
StartBlock(content, display_path, fname, back) ==
    LET host == ResolveHostname(content, fname)
        date == find_best_date(content)
    IN  /\ current_hostname' = host.hostname
        /\ hostname_priority' = host.priority
        /\ current_clock_dt' = date.dt
        /\ raw_time_string' = date.raw
        /\ filename' = display_path
        /\ lines' = SplitLines(content)
        /\ lineIdx' = 1
        /\ current_name' = None
        /\ current_descr' = None
        /\ ret' = back
        /\ pc' = "lines"

NoBlock ==
    UNCHANGED <<ret, lines, lineIdx, filename, current_hostname,
                hostname_priority, current_clock_dt, raw_time_string,
                current_name, current_descr>>

NoReport == UNCHANGED <<df, initial_count, duplicates_removed, final_count>>

\* An exception that leaves parse_inventory_files uncaught: the run is over.
Caught_Uncaught(src, printed) ==
    /\ stdout' = Append(stdout, printed)
    /\ pc' = "aborted"
    /\ NoBlock
    /\ UNCHANGED <<srcIdx, memIdx>>

\* Lines 178-179, 195-196, 206-207: the except clause around one directory
\* entry.  The error is printed and the walk goes on with the next entry.
Caught(src, printed) ==
    /\ stdout' = stdout \o <<printed, <<"[ERROR]", src.name>>>>
    /\ srcIdx' = srcIdx + 1
    /\ pc' = "walk"
    /\ NoBlock
    /\ UNCHANGED memIdx

\* Lines 157-207, one directory entry: skipped, opened as an archive, or
\* read as a text file.
Walk ==
    /\ pc = "walk"
    /\ srcIdx <= Len(sources)
    /\ LET src == sources[srcIdx]
       IN  IF src.kind \in {"report", "excluded"}
           THEN /\ srcIdx' = srcIdx + 1
                /\ NoBlock
                /\ UNCHANGED <<pc, memIdx, files_processed,
                               archives_processed, stdout>>
           ELSE IF src.kind \in {"zip", "tar"}
           THEN IF src.readable
                THEN /\ stdout' = Append(stdout, <<"Archive found", src.name>>)
                     /\ archives_processed' = archives_processed + 1
                     /\ memIdx' = 1
                     /\ pc' = "members"
                     /\ NoBlock
                     /\ UNCHANGED <<srcIdx, files_processed>>
                ELSE /\ Caught(src, <<"Archive found", src.name>>)
                     /\ UNCHANGED <<files_processed, archives_processed>>
           ELSE /\ files_processed' = files_processed + 1
                /\ UNCHANGED archives_processed
                /\ IF src.readable
                   THEN /\ stdout' = Append(stdout, <<"Reading file", src.name>>)
                        /\ StartBlock(src.content, <<src.name>>, src.name, "walk")
                        /\ UNCHANGED <<srcIdx, memIdx>>
                   ELSE Caught(src, <<"Reading file", src.name>>)
    /\ NoReport
    /\ UNCHANGED <<sources, extracted_data>>

\* Lines 171-177 and 187-194, one member of the open archive: a directory
\* is passed over, a member is read and processed.  A member that cannot be
\* read raises inside the with block, so the except clause ends the archive.
NextMember ==
    /\ pc = "members"
    /\ LET src == sources[srcIdx]
       IN  IF memIdx > Len(src.members)
           THEN /\ srcIdx' = srcIdx + 1
                /\ pc' = "walk"
                /\ NoBlock
                /\ UNCHANGED <<memIdx, stdout>>
           ELSE LET m == src.members[memIdx]
                IN  IF m.isdir
                    THEN /\ memIdx' = memIdx + 1
                         /\ NoBlock
                         /\ UNCHANGED <<srcIdx, pc, stdout>>
                    ELSE IF m.ok
                    THEN /\ stdout' = Append(stdout, <<"Reading inside", src.name, m.name>>)
                         /\ StartBlock(m.content, <<src.name, m.name>>, m.name,
                                       "members")
                         /\ UNCHANGED <<srcIdx, memIdx>>
                    ELSE Caught(src, <<"Reading inside", src.name, m.name>>)
    /\ NoReport
    /\ UNCHANGED <<sources, extracted_data, files_processed, archives_processed>>

\* The values of lines 124-133 that are the block's, not the line's.
Stamp ==
    [Hostname           |-> current_hostname,
     CaptureTime        |-> current_clock_dt,
     OriginalTimeString |-> raw_time_string,
     SourceFile         |-> filename,
     HostnamePriority   |-> hostname_priority]

\* Lines 108-137: one line of the block.
LineStep ==
    /\ pc = "lines"
    /\ lineIdx <= Len(lines)
    /\ LET sc == ScanLine([current_name   |-> current_name,
                           current_descr  |-> current_descr,
                           extracted_data |-> extracted_data],
                          lines[lineIdx], Stamp)
       IN  /\ current_name' = sc.current_name
           /\ current_descr' = sc.current_descr
           /\ extracted_data' = sc.extracted_data
    /\ lineIdx' = lineIdx + 1
    /\ NoReport
    /\ UNCHANGED <<sources, srcIdx, memIdx, pc, ret, lines, filename,
                   current_hostname, hostname_priority, current_clock_dt,
                   raw_time_string, files_processed, archives_processed, stdout>>

\* process_content returns: to the walk after a file, to the member loop
\* after a member.
EndBlock ==
    /\ pc = "lines"
    /\ lineIdx > Len(lines)
    /\ pc' = ret
    /\ IF ret = "walk"
       THEN srcIdx' = srcIdx + 1 /\ UNCHANGED memIdx
       ELSE memIdx' = memIdx + 1 /\ UNCHANGED srcIdx
    /\ NoReport
    /\ UNCHANGED <<sources, ret, lines, lineIdx, filename, current_hostname,
                   hostname_priority, current_clock_dt, raw_time_string,
                   current_name, current_descr, extracted_data,
                   files_processed, archives_processed, stdout>>

\* Lines 210-252: the data stage, or the message that nothing was found.
Process ==
    /\ pc = "walk"
    /\ srcIdx > Len(sources)
    /\ IF extracted_data # <<>>
       THEN \E out \in {Deduplicate(extracted_data)} :
                /\ df' = out.df
                /\ initial_count' = out.initial_count
                /\ duplicates_removed' = out.duplicates_removed
                /\ final_count' = out.final_count
                /\ stdout' = Append(stdout, <<"Success!">>)
       ELSE /\ stdout' = Append(stdout, <<"No matching data found.">>)
            /\ NoReport
    /\ pc' = "done"
    /\ NoBlock
    /\ UNCHANGED <<sources, srcIdx, memIdx, extracted_data, files_processed,
                   archives_processed>>

Next == Walk \/ NextMember \/ LineStep \/ EndBlock \/ Process

NextBlock == Walk \/ LineStep \/ EndBlock \/ Process

Spec == Init /\ [][Next]_vars

SpecBlock == InitBlock /\ [][NextBlock]_vars

SpecResolve == InitResolve /\ [][NextBlock]_vars

SpecDedup == InitDedup /\ [][Process]_vars

SpecRerun == InitRerun /\ [][Process]_vars

(***************************************************************************)
(* The data stage: what is kept, how many, and running it again.           *)
(***************************************************************************)

Range(s) == {s[i] : i \in 1..Len(s)}

Serials(s) == {s[i].SN : i \in 1..Len(s)}

\* The data stage has run on a non-empty collection.
Reported == pc = "done" /\ extracted_data # <<>>

\* x <= y for two capture times, a missing one below every timestamp.
TimeLE(x, y) == x = None \/ (y # None /\ ~DtLater(x[1], y[1]))

\* (hostname_priority, description_length, capture_time) of r is at most
\* that of k, compared lexicographically.
KeyLE(r, k) ==
    \/ r.HostnamePriority < k.HostnamePriority
    \/ /\ r.HostnamePriority = k.HostnamePriority
       /\ \/ StrLen(r.DESCR) < StrLen(k.DESCR)
          \/ /\ StrLen(r.DESCR) = StrLen(k.DESCR)
             /\ TimeLE(r.CaptureTime, k.CaptureTime)

\* C1: for every serial number of the collection, the one record the data
\* stage keeps for it is a record of the collection with that serial whose
\* (priority, description length, capture time) is at least that of every
\* record sharing the serial, a missing capture time being the least; so a
\* priority-2 record is never dropped for a priority-0 one.
C1_KeptHasMaximalKey ==
    Reported =>
        \A i \in 1..Len(extracted_data) :
            LET r == extracted_data[i]
                K == {k \in 1..Len(df) : df[k].SN = r.SN}
            IN  /\ Cardinality(K) = 1
                /\ \A k \in K : /\ df[k] \in Range(extracted_data)
                                /\ KeyLE(r, df[k])
                                /\ r.HostnamePriority = 2 =>
                                       df[k].HostnamePriority = 2

\* Two records of one serial, the priority-2 one with the shorter
\* description and no capture time, the priority-0 one with a timestamp:
\* the priority-2 one is kept.
C1_Witness ==
    /\ Reported
    /\ Len(df) = 1
    /\ df[1].HostnamePriority = 2 /\ df[1].CaptureTime = None
    /\ \E i \in 1..Len(extracted_data) :
          /\ extracted_data[i].HostnamePriority = 0
          /\ extracted_data[i].CaptureTime # None
          /\ StrLen(extracted_data[i].DESCR) > StrLen(df[1].DESCR)

\* C6: running the data stage on its own result returns the same records
\* in the same order and removes no duplicate.
C6_DeduplicateIdempotent ==
    Reported =>
        /\ Deduplicate(df).df = df
        /\ Deduplicate(df).duplicates_removed = 0
        /\ Deduplicate(df).final_count = final_count

\* A first run that removed a duplicate and changed the order of the rest.
C6_Witness ==
    /\ Reported
    /\ duplicates_removed > 0
    /\ Len(df) > 1
    /\ df[1] # TechnicalSort(extracted_data)[1]

\* C10: the result holds exactly one record for each serial number of the
\* collection, the total is the size of the collection, and the number of
\* duplicates removed is the total less the number of distinct serials,
\* which is the total less the number of records kept.
C10_OnePerSerial ==
    Reported =>
        /\ Serials(df) = Serials(extracted_data)
        /\ \A j, k \in 1..Len(df) : df[j].SN = df[k].SN => j = k
        /\ initial_count = Len(extracted_data)
        /\ duplicates_removed = initial_count - Cardinality(Serials(extracted_data))
        /\ initial_count = duplicates_removed + Len(df)
        /\ final_count = Len(df)

\* A collection with a repeated serial and another one.
C10_Witness ==
    /\ Reported
    /\ duplicates_removed > 0
    /\ Cardinality(Serials(df)) > 1

(***************************************************************************)
(* One block: hostname, capture time and the pairing of lines.             *)
(***************************************************************************)

\* Inside process_content, and at its end.
InBlock == pc = "lines"

BlockDone == pc = "lines" /\ lineIdx > Len(lines)

\* The text process_content was called with, and its fallback identifier.
BlockText ==
    IF ret = "walk" THEN sources[srcIdx].content
    ELSE sources[srcIdx].members[memIdx].content

BlockName ==
    IF ret = "walk" THEN sources[srcIdx].name
    ELSE sources[srcIdx].members[memIdx].name

\* C4: when the prompt pattern matches the block, the hostname is the
\* prompt's token and the priority 2, whether or not and wherever a
\* "hostname <token>" line is present; the priority is 1, with the
\* configured token, exactly when only the configuration pattern matches,
\* and 0, with the fallback identifier, exactly when neither does.
C4_PromptHostnameWins ==
    InBlock =>
        LET prompt == PROMPT_HOSTNAME_PATTERN(BlockText)
            config == CONFIG_HOSTNAME_PATTERN(BlockText)
        IN  /\ prompt # None =>
                /\ hostname_priority = 2
                /\ current_hostname = Strip(prompt[1])
            /\ hostname_priority = 1 <=> (prompt = None /\ config # None)
            /\ hostname_priority = 1 => current_hostname = Strip(config[1])
            /\ hostname_priority = 0 <=> (prompt = None /\ config = None)
            /\ hostname_priority = 0 => current_hostname = BlockName

\* A block whose first line is a configuration hostname and which has a
\* prompt line further down, resolved from the prompt.
C4_Witness ==
    /\ InBlock
    /\ Len(lines) > 1
    /\ CONFIG_HOSTNAME_PATTERN(lines[1]) # None
    /\ PROMPT_HOSTNAME_PATTERN(lines[1]) = None
    /\ PROMPT_HOSTNAME_PATTERN(BlockText) # None
    /\ hostname_priority = 2
    /\ current_hostname # CONFIG_HOSTNAME_PATTERN(BlockText)[1]

\* C5: when the line after "show clock" parses as a date/time, the capture
\* time is that timestamp and the raw string that line, whatever lines with
\* an HH:MM:SS the block holds and wherever they are.
C5_ClockIsAuthoritative ==
    InBlock =>
        LET clock == CLOCK_PATTERN(BlockText)
        IN  (clock # None /\ FuzzyParse(Strip(clock[1])) # None) =>
                /\ current_clock_dt = FuzzyParse(Strip(clock[1]))
                /\ raw_time_string = Some(Strip(clock[1]))

\* A block with a parsable clock line and, after it, a line with another
\* timestamp that the backwards scan would have taken.
C5_Witness ==
    /\ InBlock
    /\ CLOCK_PATTERN(BlockText) # None
    /\ current_clock_dt = FuzzyParse(Strip(CLOCK_PATTERN(BlockText)[1]))
    /\ current_clock_dt # None
    /\ LET last == FallbackScan(FALLBACK_TIME_PATTERN(BlockText))
       IN  last.dt # None /\ last.dt # current_clock_dt

\* Line i of the block as the scanner sees it.
L(i) == Strip(lines[i])

IsND(i) == NAME_DESCR_PATTERN(L(i)) # None

StartsPID(i) == At(L(i), 1, "PID:")

\* Line k begins with PID:, is no NAME/DESCR line and matches the PID/SN
\* pattern.
PidMatches(k) == StartsPID(k) /\ ~IsND(k) /\ PID_SN_PATTERN(L(k)) # None

\* NAME/DESCR line i is followed by a matching PID line before the next
\* NAME/DESCR line and before line n.
FollowedBefore(i, n) ==
    \E k \in (i + 1)..(n - 1) :
        PidMatches(k) /\ \A m \in (i + 1)..(k - 1) : ~IsND(m)

\* C2: every record of the collection has a non-empty serial number and a
\* non-empty product id.
C2_SerialAndPidNonEmpty ==
    \A i \in 1..Len(extracted_data) :
        extracted_data[i].SN # <<>> /\ extracted_data[i].PID # <<>>

\* A step that emits: the line is a matching PID line and the one record
\* added has the name and description of the last NAME/DESCR line before it.
EmitsForLastPair ==
    extracted_data' # extracted_data =>
        /\ InBlock /\ lineIdx <= Len(lines)
        /\ PidMatches(lineIdx)
        /\ LET N == {i \in 1..(lineIdx - 1) : IsND(i)}
           IN  /\ N # {}
               /\ Len(extracted_data') = Len(extracted_data) + 1
               /\ SubSeq(extracted_data', 1, Len(extracted_data)) = extracted_data
               /\ LET r == extracted_data'[Len(extracted_data')]
                      nd == NAME_DESCR_PATTERN(L(Max(N)))[1]
                  IN  r.NAME = nd.name /\ r.DESCR = nd.descr

\* No more records than NAME/DESCR lines that a matching PID line followed.
NoRecordWithoutPidLine ==
    InBlock =>
        Len(extracted_data) <=
            Cardinality({i \in 1..(lineIdx - 1) :
                            IsND(i) /\ FollowedBefore(i, lineIdx)})

\* C3: a NAME/DESCR line that no matching PID line follows before the next
\* NAME/DESCR line or the end of the text gives no record: records number
\* at most the NAME/DESCR lines so followed, and a PID line that emits is
\* paired with the most recent NAME/DESCR line only.
C3_StrictPairing == [][EmitsForLastPair]_vars /\ []NoRecordWithoutPidLine

\* A block read to its end: a named pair, then another NAME/DESCR line,
\* then a matching PID line; the one record is not the first pair's.
C3_Witness ==
    /\ BlockDone
    /\ Len(extracted_data) = 1
    /\ \E i \in 1..Len(lines) :
          /\ IsND(i)
          /\ ~FollowedBefore(i, Len(lines) + 1)
          /\ \E k \in (i + 1)..Len(lines) : PidMatches(k)
          /\ NAME_DESCR_PATTERN(L(i))[1].name # <<>>
          /\ NAME_DESCR_PATTERN(L(i))[1].name # extracted_data[1].NAME

\* The first line after i that begins with PID:, or 0.
FirstPid(i) ==
    LET K == {k \in (i + 1)..Len(lines) : StartsPID(k)}
    IN  IF K = {} THEN 0 ELSE Min(K)

\* The first line after NAME/DESCR line i that begins with PID: comes
\* before any other NAME/DESCR line and matches the PID/SN pattern.
FirstPidMatches(i) ==
    /\ IsND(i)
    /\ FirstPid(i) # 0
    /\ \A m \in (i + 1)..FirstPid(i) : ~IsND(m)
    /\ PID_SN_PATTERN(L(FirstPid(i))) # None

\* C8: at the end of a block, every NAME/DESCR line whose first later PID:
\* line comes before any other NAME/DESCR line and matches has given a
\* record with its name and description and the PID and serial captured,
\* and there is exactly one record for each such line.
C8_OneRecordPerPair ==
    BlockDone =>
        /\ \A i \in 1..Len(lines) :
              FirstPidMatches(i) =>
                  \E n \in 1..Len(extracted_data) :
                      LET r == extracted_data[n]
                          nd == NAME_DESCR_PATTERN(L(i))[1]
                          ps == PID_SN_PATTERN(L(FirstPid(i)))[1]
                      IN  /\ r.NAME = nd.name /\ r.DESCR = nd.descr
                          /\ r.PID = Strip(ps.pid) /\ r.SN = Strip(ps.sn)
        /\ Len(extracted_data) =
               Cardinality({i \in 1..Len(lines) : FirstPidMatches(i)})

\* A pair is pending at line n: a NAME/DESCR line came before and no line
\* beginning with PID: since.
PairPending(n) ==
    \E i \in 1..(n - 1) :
        IsND(i) /\ \A m \in (i + 1)..(n - 1) : ~StartsPID(m) \/ IsND(m)

\* Line n begins with PID:, is no NAME/DESCR line and fails the pattern.
Malformed(n) == StartsPID(n) /\ ~IsND(n) /\ PID_SN_PATTERN(L(n)) = None

\* C9: a line beginning with PID: that fails the PID/SN pattern while a
\* pair is pending emits nothing and clears both pending fields; and a
\* PID line after a malformed one, with no NAME/DESCR line between, emits
\* nothing either.
C9_MalformedPidClearsPending ==
    [][(InBlock /\ lineIdx <= Len(lines)) =>
          /\ (PairPending(lineIdx) /\ Malformed(lineIdx)) =>
                 /\ extracted_data' = extracted_data
                 /\ current_name' = None
                 /\ current_descr' = None
          /\ (\E m \in 1..(lineIdx - 1) :
                 /\ Malformed(m)
                 /\ \A x \in (m + 1)..lineIdx : ~IsND(x)) =>
                 extracted_data' = extracted_data]_vars

(***************************************************************************)
(* The walk as a whole: failures to open or read.                          *)
(***************************************************************************)

\* process_content on one block, as one step: data with the block's
\* records appended.
RECURSIVE ScanLines(_, _, _)
ScanLines(sc, ls, stamp) ==
    IF ls = <<>> THEN sc
    ELSE ScanLines(ScanLine(sc, Head(ls), stamp), Tail(ls), stamp)

BlockRecords(block, data) ==
    LET host == ResolveHostname(block.content, block.fname)
        date == find_best_date(block.content)
    IN  ScanLines([current_name |-> None, current_descr |-> None,
                   extracted_data |-> data],
                  SplitLines(block.content),
                  [Hostname           |-> host.hostname,
                   CaptureTime        |-> date.dt,
                   OriginalTimeString |-> date.raw,
                   SourceFile         |-> block.display_path,
                   HostnamePriority   |-> host.priority]).extracted_data

\* The members of an archive that are read: the files before the first
\* file that cannot be read.
RECURSIVE ReadableMembers(_, _)
ReadableMembers(src, ms) ==
    IF ms = <<>> THEN <<>>
    ELSE IF Head(ms).isdir THEN ReadableMembers(src, Tail(ms))
    ELSE IF ~Head(ms).ok THEN <<>>
    ELSE <<[content |-> Head(ms).content, fname |-> Head(ms).name,
            display_path |-> <<src.name, Head(ms).name>>]>>
         \o ReadableMembers(src, Tail(ms))

\* The blocks of text a directory entry yields when what fails is left out.
ReadableBlocks(src) ==
    IF src.kind = "file" /\ src.readable
    THEN <<[content |-> src.content, fname |-> src.name,
            display_path |-> <<src.name>>]>>
    ELSE IF src.kind \in {"zip", "tar"} /\ src.readable
         THEN ReadableMembers(src, src.members)
         ELSE <<>>

\* Opening the entry or reading one of its members fails.
Fails(src) ==
    /\ src.kind \in {"file", "zip", "tar"}
    /\ \/ ~src.readable
       \/ \E k \in 1..Len(src.members) : ~src.members[k].isdir /\ ~src.members[k].ok

RECURSIVE RecordsOfBlocks(_, _)
RecordsOfBlocks(blocks, data) ==
    IF blocks = <<>> THEN data
    ELSE RecordsOfBlocks(Tail(blocks), BlockRecords(Head(blocks), data))

\* The records of the readable blocks of the entries srcs, in walk order.
RECURSIVE RecordsOfReadable(_, _)
RecordsOfReadable(srcs, data) ==
    IF srcs = <<>> THEN data
    ELSE RecordsOfReadable(Tail(srcs),
                           RecordsOfBlocks(ReadableBlocks(Head(srcs)), data))

\* The entries among the first n that the walk opens (does not skip).
Opened(n) == {i \in 1..n : sources[i].kind \in {"file", "zip", "tar"}}

\* The lines of stdout that announce an entry.
Announced ==
    {k \in 1..Len(stdout) : stdout[k][1] \in {"Reading file", "Archive found"}}

\* The walk is alive and has lost nothing: it is at a place of the program,
\* not ended by an exception; every entry passed was
\* announced and the records so far are those of the readable blocks of
\* the entries passed; at the end every entry was passed and the data
\* stage, or the no-data message, is that of the readable blocks.
WalkIntact ==
    /\ pc \in {"walk", "members", "lines", "done"}
    /\ pc = "walk" =>
          /\ Cardinality(Announced) = Cardinality(Opened(srcIdx - 1))
          /\ extracted_data = RecordsOfReadable(SubSeq(sources, 1, srcIdx - 1), <<>>)
    /\ pc = "done" =>
          /\ srcIdx = Len(sources) + 1
          /\ Cardinality(Announced) = Cardinality(Opened(Len(sources)))
          /\ extracted_data = RecordsOfReadable(sources, <<>>)
          /\ IF extracted_data # <<>>
             THEN /\ df = Deduplicate(extracted_data).df
                  /\ stdout[Len(stdout)] = <<"Success!">>
             ELSE stdout[Len(stdout)] = <<"No matching data found.">>

\* No step takes a record out of the collection.
RecordsRetained ==
    /\ Len(extracted_data') >= Len(extracted_data)
    /\ SubSeq(extracted_data', 1, Len(extracted_data)) = extracted_data

====
